---- MODULE Spec2Model ----
(***************************************************************************)
(* Model of streamlit_app.py: a one-player "umbrella" game.  One Streamlit *)
(* session is modelled.  Every user interaction re-executes the whole      *)
(* script top to bottom against the persistent st.session_state; one       *)
(* action of the model is one such script run.                             *)
(*                                                                         *)
(* Conventions                                                             *)
(*  - A Python dict is a sequence of <<key, value>> pairs in insertion     *)
(*    order (random.choices depends on that order).                        *)
(*  - Probability weights are kept in tenths (0.3 is 3): the cumulative    *)
(*    sums that random.choices bisects are then integers, and the draw     *)
(*    random() * total is represented by the tenth it falls in.            *)
(*  - Values that compare by description (WeatherObservation,              *)
(*    UmbrellaAction) are their description strings; a SimpleOutcome is a  *)
(*    record of its description and its reward.                            *)
(*  - An uncaught Python exception aborts the script run; Streamlit shows  *)
(*    it on the page and st.session_state keeps what was written before.   *)
(***************************************************************************)
EXTENDS Integers, Sequences, FiniteSets, TLC

VARIABLES
    session_state,  \* st.session_state: a function from the keys set so far
    page,           \* what the last script run rendered
    selected,       \* index held by the "Choose an action:" selectbox widget
    request,        \* the widget event that triggered the last script run
    sampled,        \* outcomes returned by sample_outcome so far (history)
    option_order    \* list(frozenset) order of this process (string hashing)

vars == <<session_state, page, selected, request, sampled, option_order>>

\* Bound on the number of outcomes sampled in one session.
MaxRounds == 2

-----------------------------------------------------------------------------
(* dict helpers *)

Keys(d) == [i \in 1..Len(d) |-> d[i][1]]

Values(d) == [i \in 1..Len(d) |-> d[i][2]]

\* dict.get(k, default)
Get(d, k, default) ==
    IF \E i \in 1..Len(d) : d[i][1] = k
    THEN d[CHOOSE i \in 1..Len(d) : d[i][1] = k][2]
    ELSE default

\* st.session_state.k = v
Put(ss, k, v) == [x \in (DOMAIN ss) \cup {k} |-> IF x = k THEN v ELSE ss[x]]

EmptyDict == << >>

-----------------------------------------------------------------------------
(* The concrete values of the program *)

CLOUDY == "Cloudy"

CLEAR == "Clear"

\* TAKE in the source (a reserved word of TLA+)
TAKE_UMBRELLA == "Take Umbrella"

DONT_TAKE == "Dont Take Umbrella"

\* UmbrellaAction.all_possibilities(obs): the same two actions for every obs
all_possibilities(obs) == {"Take Umbrella", "Don't Take Umbrella"}

DRY_BY_UMBRELLA == [description |-> "It rained but I stayed dry", reward |-> 50]

UNNECESSARY_BURDEN ==
    [description |-> "No rain, I took an unnecessary load", reward |-> 70]

SOAKED == [description |-> "I got soaked", reward |-> -100]

LIGHT_AS_A_FEATHER == [description |-> "No rain, light as a feather.", reward |-> 100]

world1 ==
    [ obs_distribution |-> << <<CLOUDY, 6>>, <<CLEAR, 4>> >>,
      outcomes |-> <<
        << <<CLOUDY, TAKE_UMBRELLA>>,      << <<DRY_BY_UMBRELLA, 3>>, <<UNNECESSARY_BURDEN, 7>> >> >>,
        << <<CLOUDY, DONT_TAKE>>, << <<SOAKED, 3>>, <<LIGHT_AS_A_FEATHER, 7>> >> >>,
        << <<CLEAR, TAKE_UMBRELLA>>,       << <<DRY_BY_UMBRELLA, 1>>, <<UNNECESSARY_BURDEN, 9>> >> >>,
        << <<CLEAR, DONT_TAKE>>,  << <<SOAKED, 1>>, <<LIGHT_AS_A_FEATHER, 9>> >> >>
      >> ]

world2 ==
    [ obs_distribution |-> << <<CLOUDY, 5>>, <<CLEAR, 5>> >>,
      outcomes |-> world1.outcomes ]

world_distribution == << <<world1, 5>>, <<world2, 5>> >>

\* SimpleWorld.observation_distribution
observation_distribution(world) == world.obs_distribution

\* SimpleWorld.marginal_outcome_distribution
marginal_outcome_distribution(world, observation, action) ==
    Get(world.outcomes, <<observation, action>>, EmptyDict)

-----------------------------------------------------------------------------
(* random.choices(population, weights=weights, k=1)[0] *)

RECURSIVE Accumulate(_)
\* itertools.accumulate(weights): the running sums
Accumulate(w) ==
    IF Len(w) = 0 THEN << >>
    ELSE LET front == Accumulate(SubSeq(w, 1, Len(w) - 1))
         IN  Append(front, (IF Len(front) = 0 THEN 0 ELSE front[Len(front)]) + w[Len(w)])

RECURSIVE bisect(_, _, _, _)
\* bisect.bisect_right(a, x, lo, hi) with 0-based lo, hi over the 1-based a
bisect(a, x, lo, hi) ==
    IF lo < hi
    THEN LET mid == (lo + hi) \div 2
         IN  IF x < a[mid + 1] THEN bisect(a, x, lo, mid) ELSE bisect(a, x, mid + 1, hi)
    ELSE lo

\* The exception random.choices raises for these arguments, or "none"
choices_raises(population, weights) ==
    LET cum_weights == Accumulate(weights)
        n == Len(population)
    IN  IF Len(cum_weights) # n THEN "ValueError"
        ELSE IF n = 0 THEN "IndexError"            \* cum_weights[-1] of []
        ELSE IF cum_weights[n] <= 0 THEN "ValueError"
        ELSE "none"

\* The items random.choices can return, one per value of random() * total
choices(population, weights) ==
    LET cum_weights == Accumulate(weights)
        n == Len(population)
        total == cum_weights[n]
    IN  { population[bisect(cum_weights, x, 0, n - 1) + 1] : x \in 0..(total - 1) }

-----------------------------------------------------------------------------
(* The three sampling functions.  Each yields the set of its possible      *)
(* results; exc is the exception it ends with, "none" when it returns.     *)

sample_world(ss) ==
    LET worlds == Keys(world_distribution)
        weights == Values(world_distribution)
        exc == choices_raises(worlds, weights)
    IN  IF exc # "none" THEN {[ss |-> ss, exc |-> exc]}
        ELSE {[ss |-> Put(ss, "current_world", w), exc |-> "none"] :
                 w \in choices(worlds, weights)}

sample_observation(ss) ==
    LET dist == observation_distribution(ss.current_world)
        exc == choices_raises(Keys(dist), Values(dist))
    IN  IF exc # "none" THEN {[ss |-> ss, exc |-> exc]}
        ELSE {[ss |-> Put(ss, "current_observation", o), exc |-> "none"] :
                 o \in choices(Keys(dist), Values(dist))}

NoOutcome == [description |-> "", reward |-> 0]

\* sample_outcome reading the table under DONT_TAKE whatever was chosen
sample_outcome_fixed_action(ss, action_choice) ==
    LET outcome_distribution ==
            marginal_outcome_distribution(ss.current_world, ss.current_observation,
                                          DONT_TAKE)
    IN  {[outcome |-> o, exc |-> "none"] :
            o \in choices(Keys(outcome_distribution), Values(outcome_distribution))}

sample_outcome(ss, action_choice) ==
    LET outcome_distribution ==
            marginal_outcome_distribution(ss.current_world, ss.current_observation,
                                          action_choice)
        exc == choices_raises(Keys(outcome_distribution), Values(outcome_distribution))
    IN  IF exc # "none" THEN {[outcome |-> NoOutcome, exc |-> exc]}
        ELSE {[outcome |-> o, exc |-> "none"] :
                 o \in choices(Keys(outcome_distribution), Values(outcome_distribution))}

-----------------------------------------------------------------------------
(* One run of the script, top to bottom *)

NoPage ==
    [elements |-> {}, metric |-> 0, observation |-> "", success |-> NoOutcome,
     exception |-> "none"]

\* list(possible_actions): the members of the frozenset in this process's order
ListOf(possible_actions) == SelectSeq(option_order, LAMBDA a : a \in possible_actions)

\* Initialisation without the "'total_reward' not in st.session_state" test
InitialiseAlways(ss) ==
    UNION { {[ss |-> Put(o.ss, "awaiting_play_again", FALSE), exc |-> "none"]
             : o \in sample_observation(w.ss) }
           : w \in sample_world(Put(ss, "total_reward", 0)) }

\* Initialisation that sets awaiting_play_again instead of clearing it
InitialiseAwaiting(ss) ==
    IF "total_reward" \in DOMAIN ss THEN {[ss |-> ss, exc |-> "none"]}
    ELSE UNION { {[ss |-> Put(o.ss, "awaiting_play_again", TRUE), exc |-> "none"]
                  : o \in sample_observation(w.ss) }
                : w \in sample_world(Put(ss, "total_reward", 0)) }

\* "Initialize session state": runs only while total_reward is not yet a key
Initialise(ss) ==
    IF "total_reward" \in DOMAIN ss THEN {[ss |-> ss, exc |-> "none"]}
    ELSE UNION {
           IF w.exc # "none" THEN {w}
           ELSE UNION {
                  IF o.exc # "none" THEN {o}
                  ELSE {[ss |-> Put(o.ss, "awaiting_play_again", FALSE), exc |-> "none"]}
                  : o \in sample_observation(w.ss) }
           : w \in sample_world(Put(ss, "total_reward", 0)) }

\* The branch taken while awaiting_play_again is set
PlayAgainBranch(ss, button, pg) ==
    IF button = "Play Again"
    THEN IF "sample_observation" \notin DOMAIN ss
         THEN \* st.session_state.sample_observation: no such key
              {[ss |-> ss, drawn |-> << >>,
                page |-> [pg EXCEPT !.elements = @ \cup {"Play Again"},
                                    !.exception = "AttributeError"]]}
         ELSE {[ss |-> Put(ss, "awaiting_play_again", FALSE), drawn |-> << >>,
                page |-> [pg EXCEPT !.elements = @ \cup {"Play Again"}]]}
    ELSE {[ss |-> ss, drawn |-> << >>,
           page |-> [pg EXCEPT !.elements = @ \cup {"Play Again", "play again hint"}]]}

\* The branch taken otherwise: observation, action selectbox, Submit Action
ActionBranch(ss, button, index, pg) ==
    LET possible_actions == all_possibilities(ss.current_observation)
        action_choice == ListOf(possible_actions)[index]
        shown == [pg EXCEPT !.observation = ss.current_observation,
                            !.elements = @ \cup {"observation", "selectbox", "Submit Action"}]
    IN  IF button = "Submit Action"
        THEN { IF r.exc # "none"
               THEN [ss |-> ss, drawn |-> << >>, page |-> [shown EXCEPT !.exception = r.exc]]
               ELSE [ss |-> Put(Put(ss, "total_reward", ss.total_reward + r.outcome.reward),
                                "awaiting_play_again", TRUE),
                     drawn |-> <<r.outcome>>,
                     page |-> [shown EXCEPT !.success = r.outcome]]
               : r \in sample_outcome(ss, action_choice) }
        ELSE {[ss |-> ss, drawn |-> << >>, page |-> shown]}

\* The script without the phase test: the action branch in every run
BodyNoPhase(ss, button, index, pg) == ActionBranch(ss, button, index, pg)

\* "Play Again logic": the phase test on awaiting_play_again
Body(ss, button, index, pg) ==
    IF ss.awaiting_play_again
    THEN PlayAgainBranch(ss, button, pg)
    ELSE ActionBranch(ss, button, index, pg)

\* The whole script: initialisation, sidebar metric, then the phase branch
Script(ss, button, index) ==
    UNION {
      IF i.exc # "none"
      THEN {[ss |-> i.ss, drawn |-> << >>, page |-> [NoPage EXCEPT !.exception = i.exc]]}
      ELSE Body(i.ss, button, index,
                [NoPage EXCEPT !.elements = {"metric"}, !.metric = i.ss.total_reward])
      : i \in Initialise(ss) }

\* A script run triggered by the widget event req
Run(req, button, index) ==
    \E r \in Script(session_state, button, index) :
        /\ session_state' = r.ss
        /\ page' = r.page
        /\ sampled' = sampled \o r.drawn
        /\ selected' = IF "selectbox" \in r.page.elements THEN index ELSE 1
        /\ request' = req
        /\ UNCHANGED option_order

-----------------------------------------------------------------------------
(* The events of a session *)

\* The browser connects: first run, no widget has a value yet
Connect ==
    /\ request = "none"
    /\ Run("connect", "none", 1)

\* The player changes the selectbox
SelectAction ==
    /\ "selectbox" \in page.elements
    /\ \E index \in 1..Len(option_order) :
          /\ index # selected
          /\ Run("select", "none", index)

\* The player clicks "Submit Action"
SubmitAction ==
    /\ "Submit Action" \in page.elements
    /\ Len(sampled) < MaxRounds
    /\ Run("Submit Action", "Submit Action", selected)

\* The player clicks "Play Again"
PlayAgain ==
    /\ "Play Again" \in page.elements
    /\ Run("Play Again", "Play Again", selected)

\* The player asks for a rerun without touching a widget
Rerun ==
    /\ request # "none"
    /\ Run("rerun", "none", selected)

AllActions == UNION {all_possibilities(o) : o \in {CLOUDY, CLEAR}}

Init ==
    /\ session_state = [k \in {} |-> 0]
    /\ page = NoPage
    /\ selected = 1
    /\ request = "none"
    /\ sampled = << >>
    /\ option_order \in {o \in [1..Cardinality(AllActions) -> AllActions] :
                            \A i, j \in DOMAIN o : i # j => o[i] # o[j]}

Next == Connect \/ SelectAction \/ SubmitAction \/ PlayAgain \/ Rerun

Spec == Init /\ [][Next]_vars

-----------------------------------------------------------------------------
(* Vocabulary of the properties *)

started == "total_reward" \in DOMAIN session_state

InAwaitingAction == started /\ ~session_state.awaiting_play_again

InAwaitingNextRound == started /\ session_state.awaiting_play_again

\* The keys of a weighted mapping that carry a weight > 0
PositiveKeys(d) == {d[i][1] : i \in {j \in 1..Len(d) : d[j][2] > 0}}

TotalWeight(d) == IF Len(d) = 0 THEN 0 ELSE Accumulate(Values(d))[Len(d)]

\* The action the selectbox holds, i.e. the one a Submit Action click submits
SelectedAction == ListOf(all_possibilities(session_state.current_observation))[selected]

\* The outcome table cell a Submit Action click reads
SelectedCell ==
    marginal_outcome_distribution(session_state.current_world,
                                  session_state.current_observation, SelectedAction)

\* The keys the script ever writes to st.session_state
StateKeys == {"total_reward", "current_world", "current_observation", "awaiting_play_again"}

-----------------------------------------------------------------------------
(* Properties *)

\* C1: a Submit Action click in phase AwaitingAction with an offered action
\* whose outcome cell is non-empty succeeds: no exception, the phase becomes
\* AwaitingNextRound, and total_reward grows by the reward of the one outcome
\* sampled, which has positive weight in that cell.
C1_SubmitAccrues ==
    [][ (request' = "Submit Action" /\ InAwaitingAction
         /\ SelectedAction \in all_possibilities(session_state.current_observation)
         /\ SelectedCell # EmptyDict)
        => /\ page'.exception = "none"
           /\ session_state'.awaiting_play_again
           /\ \E o \in PositiveKeys(SelectedCell) :
                 /\ sampled' = Append(sampled, o)
                 /\ page'.success = o
                 /\ session_state'.total_reward = session_state.total_reward + o.reward
      ]_vars

C1_Witness ==
    /\ request = "Submit Action"
    /\ InAwaitingNextRound
    /\ page.success = UNNECESSARY_BURDEN
    /\ session_state.total_reward = UNNECESSARY_BURDEN.reward

\* C2 (as claimed): a Play Again click in phase AwaitingNextRound completes
\* without error, re-samples world and observation, keeps total_reward and
\* moves the phase to AwaitingAction.
C2_PlayAgainStartsRound ==
    [][ (request' = "Play Again" /\ InAwaitingNextRound)
        => /\ page'.exception = "none"
           /\ ~session_state'.awaiting_play_again
           /\ session_state'.total_reward = session_state.total_reward
           /\ session_state'.current_world \in PositiveKeys(world_distribution)
           /\ session_state'.current_observation \in
                 PositiveKeys(observation_distribution(session_state'.current_world))
      ]_vars

\* C3 (as claimed): a Submit Action click whose outcome cell is the empty
\* mapping fails with NoOutcomeDefined instead of reaching the sampler, and
\* leaves total_reward and the phase unchanged.
C3_EmptyCellIsNoOutcomeDefined ==
    [][ (request' = "Submit Action" /\ InAwaitingAction /\ SelectedCell = EmptyDict)
        => /\ page'.exception = "NoOutcomeDefined"
           /\ session_state' = session_state
           /\ sampled' = sampled
      ]_vars

\* C4 (as claimed): a Submit Action click arriving in phase AwaitingNextRound
\* fails with InvalidStateTransition, samples nothing and leaves total_reward
\* and the phase unchanged.
C4_SecondSubmitIsError ==
    [][ (request' = "Submit Action" /\ InAwaitingNextRound)
        => /\ page'.exception = "InvalidStateTransition"
           /\ session_state' = session_state
           /\ sampled' = sampled
      ]_vars

\* C4 (amended): a Submit Action click arriving in phase AwaitingNextRound
\* raises no error; the run shows the "Click 'Play Again'" hint, samples
\* nothing and leaves total_reward and the phase unchanged, so no round
\* accrues more than one reward.
C4_SecondSubmitIsIgnored ==
    [][ (request' = "Submit Action" /\ InAwaitingNextRound)
        => /\ page'.exception = "none"
           /\ "play again hint" \in page'.elements
           /\ page'.success = NoOutcome
           /\ session_state' = session_state
           /\ sampled' = sampled
      ]_vars

C4_Witness ==
    /\ request = "Submit Action"
    /\ InAwaitingNextRound
    /\ "play again hint" \in page.elements
    /\ Len(sampled) = 1

RECURSIVE SumRewards(_)
SumRewards(outcomes) ==
    IF Len(outcomes) = 0 THEN 0
    ELSE outcomes[1].reward + SumRewards(Tail(outcomes))

\* C5: once the session is initialised, total_reward is the sum of the rewards
\* of the outcomes sampled so far, and it changes only in a Submit Action run
\* that sampled an outcome, by exactly that outcome's reward; every other run
\* (Play Again, a failed or ignored submit, a plain rerun) leaves it alone.
C5_RewardOnlyBySubmit ==
    /\ [](started => session_state.total_reward = SumRewards(sampled))
    /\ [][ started =>
             /\ started'
             /\ (session_state'.total_reward # session_state.total_reward
                 => /\ request' = "Submit Action"
                    /\ page'.exception = "none"
                    /\ page'.success # NoOutcome
                    /\ sampled' = Append(sampled, page'.success))
             /\ (sampled' # sampled
                 => /\ sampled' = Append(sampled, page'.success)
                    /\ session_state'.total_reward =
                          session_state.total_reward + page'.success.reward)
         ]_vars

C5_Witness ==
    /\ request = "Play Again"
    /\ page.exception # "none"
    /\ sampled = <<DRY_BY_UMBRELLA>>
    /\ session_state.total_reward = DRY_BY_UMBRELLA.reward

\* C6 (as claimed): in every AwaitingNextRound state the outcome of the last
\* successful submit is still on the page or held under some key of the
\* session state.
C6_OutcomeStaysVisible ==
    InAwaitingNextRound =>
        \/ page.success = sampled[Len(sampled)]
        \/ (DOMAIN session_state) \ StateKeys # {}

\* C7: after the first run total_reward is 0, the phase is AwaitingAction,
\* current_world is a world of positive weight in world_distribution and
\* current_observation has positive weight in that world's distribution.
C7_StartSession ==
    request = "connect" =>
        /\ page.exception = "none"
        /\ DOMAIN session_state = StateKeys
        /\ session_state.total_reward = 0
        /\ session_state.awaiting_play_again = FALSE
        /\ session_state.current_world \in PositiveKeys(world_distribution)
        /\ session_state.current_observation \in
              PositiveKeys(observation_distribution(session_state.current_world))
        /\ page.observation = session_state.current_observation

C7_Witness ==
    /\ request = "connect"
    /\ session_state.current_world = world2
    /\ session_state.current_observation = CLEAR

\* C9 (as claimed): each sampling step fails with EmptyDistribution, and
\* returns nothing, on a mapping that is empty or all zero; on a mapping of
\* positive total weight it returns one key of weight > 0.
C9_SamplerContract ==
    [][ /\ (request' = "connect"
            => /\ session_state'.current_world \in PositiveKeys(world_distribution)
               /\ session_state'.current_observation \in
                     PositiveKeys(observation_distribution(session_state'.current_world)))
        /\ (request' = "Submit Action" /\ InAwaitingAction
            => IF TotalWeight(SelectedCell) = 0
               THEN page'.exception = "EmptyDistribution" /\ sampled' = sampled
               ELSE \E o \in PositiveKeys(SelectedCell) : sampled' = Append(sampled, o))
      ]_vars

\* C10 (as claimed): in every AwaitingAction state every action offered to
\* the player has a non-empty outcome distribution in the current world.
C10_OfferedActionsHaveOutcomes ==
    InAwaitingAction =>
        \A a \in all_possibilities(session_state.current_observation) :
            marginal_outcome_distribution(session_state.current_world,
                                          session_state.current_observation, a) # EmptyDict

====
